---- MODULE Spec2Model ----
(***************************************************************************)
(* Model of the client that talks to the remote analytics tool server:     *)
(* backend/services/mcp_client_fixed.py (MCPClientFixed, the module        *)
(* singleton) and the agent singleton of                                   *)
(* backend/services/adk_mcp_integration.py that owns its lifecycle.        *)
(*                                                                         *)
(* Callers are asyncio tasks on one event loop: the code between two       *)
(* awaits of a network exchange runs atomically, so every action below is  *)
(* one such segment (from the arrival of a response, or from the call, up  *)
(* to the next request put on the wire or to the return).                  *)
(***************************************************************************)
EXTENDS Integers, Sequences, FiniteSets, TLC

(***************************************************************************)
(* Bounds of the model.                                                    *)
(***************************************************************************)
NumCallers == 2      \* concurrent tasks using the shared client
MaxCalls == 2        \* invocations started over a run
MaxLifecycle == 1    \* reset / close operations over a run
MaxLines == 2        \* lines of a response body given to the normalizer
MaxTransportOps == 6 \* _ensure_session / close calls of the transport runs

Procs == 1..NumCallers

(***************************************************************************)
(* Python values.  None is 0 for the integer-valued fields (transport      *)
(* handle, session token) and the empty string for the user id; the code   *)
(* tests all three by truthiness or "is None".                             *)
(***************************************************************************)
None == 0
NoUser == ""
Users == {"u1", "u2"}

\* for port in ['8007', '8006', '8005', '8004', '8003', '8002', '8001']
Ports == <<8007, 8006, 8005, 8004, 8003, 8002, 8001>>

\* response.status values the code distinguishes: 200, 202 and anything else
Statuses == {200, 202, 500}

\* Tools of the facade: get_platform_examples needs no identity,
\* get_google_ads_accounts resolves the user id before call_tool (as do
\* get_ga4_properties, get_meta_ads_accounts and get_comprehensive_insights,
\* with the same code), and query_google_ads_data, in the definition that
\* the class ends up with (lines 502-526, like query_ga4_data at 528-552),
\* passes the user_id it is given to call_tool.
ToolNoAuth == "get_platform_examples"
ToolAuth == "get_google_ads_accounts"
ToolQuery == "query_google_ads_data"
Tools == {ToolNoAuth, ToolAuth, ToolQuery}

\* "requires_auth": True in the agent's tool table
RequiresAuth == {ToolAuth, ToolQuery}

(***************************************************************************)
(* JSON values (what json.loads returns) and texts (what it is given).     *)
(* Every value is a tagged record; an object keeps its members in a        *)
(* function whose domain is the set of keys, so that "k in d" is           *)
(* k \in DOMAIN d.f.                                                       *)
(***************************************************************************)
PyNone == [t |-> "None"]
JStr(s) == [t |-> "str", s |-> s]
JNum(n) == [t |-> "num", n |-> n]
JBool(b) == [t |-> "bool", b |-> b]
JList(items) == [t |-> "list", items |-> items]
JObj(f) == [t |-> "obj", f |-> f]

\* dict membership: 'k' in d
HasKey(d, k) == d.t = "obj" /\ k \in DOMAIN d.f

\* Python truthiness of a decoded value: None, {}, [], "", 0, False are falsy
Truthy(v) ==
    CASE v.t = "None" -> FALSE
      [] v.t = "obj" -> DOMAIN v.f # {}
      [] v.t = "list" -> Len(v.items) > 0
      [] v.t = "str" -> v.s # ""
      [] v.t = "num" -> v.n # 0
      [] v.t = "bool" -> v.b
      [] v.t = "text" -> v.x.k # "empty"
      [] OTHER -> TRUE

\* A text is empty, the termination sentinel, the serialization of a JSON
\* value, or anything else (which json.loads rejects).
TEmpty == [k |-> "empty"]
TDone == [k |-> "done"]
TPlain(s) == [k |-> "plain", s |-> s]
TJson(v) == [k |-> "json", v |-> v]

\* json.loads: the decoded value, or JSONDecodeError
JSONDecodeError == [ok |-> FALSE]
JsonLoads(text) ==
    IF text.k = "json" THEN [ok |-> TRUE, v |-> text.v] ELSE JSONDecodeError

\* a str value holding a text (content[0]['text'])
JText(text) == [t |-> "text", x |-> text]

(***************************************************************************)
(* Response Normalizer: MCPClientFixed._parse_sse_response.                *)
(* A body is the sequence of its lines; a line is its prefix ("data" when  *)
(* it begins with 'data: ', "other" otherwise) and the text after it.      *)
(***************************************************************************)
DataLine(text) == [prefix |-> "data", payload |-> text]
OtherLine == [prefix |-> "other", payload |-> TEmpty]

\* line = line.strip(); line.startswith('data: ').  strip() removes the blank
\* that ends a bare 'data: ' line, so a data line with nothing after the
\* prefix no longer starts with it.
StartsWithData(line) == line.prefix = "data" /\ line.payload.k # "empty"

\* a scan without the break: the last payload json.loads accepts wins
ScanLinesLast(lines, i) ==
    LET ok == {j \in i..Len(lines) :
                  /\ StartsWithData(lines[j]) /\ lines[j].payload.k # "done"
                  /\ JsonLoads(lines[j].payload).ok}
    IN  IF ok = {} THEN PyNone
        ELSE JsonLoads(lines[CHOOSE j \in ok : \A k \in ok : k <= j].payload).v

\* for line in lines: ... first payload json.loads accepts, with break;
\* the sentinel '[DONE]' is skipped, a JSONDecodeError is swallowed.
\* sse_data stays None when the loop ends without a break.
RECURSIVE ScanLines(_, _)
ScanLines(lines, i) ==
    IF i > Len(lines) THEN PyNone
    ELSE LET line == lines[i]
             json_data == line.payload
         IN  IF StartsWithData(line) /\ json_data.k # "empty" /\ json_data.k # "done"
                  /\ JsonLoads(json_data).ok
             THEN JsonLoads(json_data).v
             ELSE ScanLines(lines, i + 1)

\* the exception a step of the normalizer raises, caught by the outer
\* "except Exception" (the function then returns None)
Raised == [t |-> "raised"]

\* 'k' in v for the decoded values met here: key of a dict, element of a
\* list; TypeError for None, numbers and booleans
Contains(v, k) ==
    CASE v.t = "obj" -> JBool(k \in DOMAIN v.f)
      [] v.t = "list" -> JBool(\E j \in 1..Len(v.items) : v.items[j] = JStr(k))
      [] OTHER -> Raised

\* {'error': error['message'], 'success': False}
ErrorValue(message) == JObj([error |-> message, success |-> JBool(FALSE)])

\* lines 331-333: error = sse_data['error']; error['message']
NormalizeError(sse_data) ==
    LET error == sse_data.f.error
    IN  IF HasKey(error, "message") THEN ErrorValue(error.f.message) ELSE Raised

\* lines 345-356: content[0].get('text', ''), json.loads of a truthy text
NormalizeContent(content) ==
    LET first == content.items[1]
    IN  IF first.t # "obj" THEN Raised
        ELSE LET text_content == IF "text" \in DOMAIN first.f THEN first.f.text
                                 ELSE JText(TEmpty)
             IN  IF Truthy(text_content)
                 THEN IF text_content.t # "text" THEN Raised
                      ELSE IF JsonLoads(text_content.x).ok
                           THEN JsonLoads(text_content.x).v
                           ELSE JObj([text |-> text_content])
                 ELSE first

\* a result handler that wraps the raw fallback instead of returning it as is
NormalizeResultWrapsRaw(result) ==
    IF Contains(result, "content") = Raised THEN Raised
    ELSE IF HasKey(result, "content")
            /\ result.f.content.t = "list" /\ Len(result.f.content.items) > 0
         THEN NormalizeContent(result.f.content)
         ELSE IF HasKey(result, "structuredContent")
              THEN result.f.structuredContent
              ELSE JObj([result |-> result])

\* lines 336-364: the frame's result
NormalizeResult(result) ==
    IF Contains(result, "content") = Raised THEN Raised
    ELSE IF HasKey(result, "content")
            /\ result.f.content.t = "list" /\ Len(result.f.content.items) > 0
         THEN NormalizeContent(result.f.content)
         ELSE IF HasKey(result, "structuredContent")
              THEN result.f.structuredContent
              ELSE result

\* a normalizer that reports a missing frame as an error value
NormalizeFrameErrorOnEmpty(sse_data) ==
    IF ~Truthy(sse_data) THEN ErrorValue(JStr("No valid SSE data found"))
    ELSE IF Contains(sse_data, "error") = Raised THEN Raised
    ELSE IF HasKey(sse_data, "error") THEN NormalizeError(sse_data)
    ELSE IF HasKey(sse_data, "result") THEN NormalizeResult(sse_data.f.result)
    ELSE sse_data

\* a normalizer that looks at 'result' before 'error'
NormalizeFrameResultFirst(sse_data) ==
    IF ~Truthy(sse_data) THEN PyNone
    ELSE IF Contains(sse_data, "error") = Raised THEN Raised
    ELSE IF HasKey(sse_data, "result") THEN NormalizeResult(sse_data.f.result)
    ELSE IF HasKey(sse_data, "error") THEN NormalizeError(sse_data)
    ELSE sse_data

\* lines 325-367 on the frame the scan selected
NormalizeFrame(sse_data) ==
    IF ~Truthy(sse_data) THEN PyNone
    ELSE IF Contains(sse_data, "error") = Raised THEN Raised
    ELSE IF HasKey(sse_data, "error") THEN NormalizeError(sse_data)
    ELSE IF HasKey(sse_data, "result") THEN NormalizeResult(sse_data.f.result)
    ELSE sse_data

\* lines 295-373: the value _parse_sse_response returns for a body
ParseSSE(response_text) ==
    LET value == NormalizeFrame(ScanLines(response_text, 1))
    IN  IF value = Raised THEN PyNone ELSE value


(***************************************************************************)
(* Response bodies the tool server can send (section 6 of the wire         *)
(* protocol, plus the malformed shapes the code has branches for).         *)
(***************************************************************************)
InnerTexts == {TEmpty, TPlain("hello"), TJson(JObj([a |-> JNum(1)])), TJson(PyNone)}
TextElem(text) == JObj([text |-> JText(text)])
ImageElem == JObj([type |-> JStr("image")])
Elems == {TextElem(x) : x \in InnerTexts} \cup {ImageElem}
Contents ==
    {JList(<<>>), JStr("n/a"), JList(<<ImageElem, TextElem(TJson(JObj([a |-> JNum(1)])))>>)}
        \cup {JList(<<e>>) : e \in Elems}
StructuredContents == {JObj([x |-> JNum(2)])}
ResultKeys == {"content", "structuredContent", "foo"}
ValuesOf(k) ==
    CASE k = "content" -> Contents
      [] k = "structuredContent" -> StructuredContents
      [] OTHER -> {JStr("bar")}
AllValues == UNION {ValuesOf(k) : k \in ResultKeys}
Results ==
    UNION {{JObj(f) : f \in {g \in [D -> AllValues] : \A k \in D : g[k] \in ValuesOf(k)}} :
           D \in SUBSET ResultKeys}
ErrorObjects == {JObj([message |-> JStr("boom")]), JObj([code |-> JNum(1)]), PyNone}
OkStructured == JObj([structuredContent |-> JObj([ok |-> JBool(TRUE)])])
Frames ==
    {JObj([result |-> r]) : r \in Results \cup {PyNone}}
        \cup {JObj([error |-> e]) : e \in ErrorObjects}
        \cup {JObj([error |-> e, result |-> OkStructured]) : e \in ErrorObjects}
        \cup {JObj(<<>>), JObj([id |-> JNum(1)]), PyNone, JNum(7)}
Lines ==
    {DataLine(TJson(f)) : f \in Frames}
        \cup {DataLine(TDone), DataLine(TPlain("oops")), DataLine(TEmpty), OtherLine}
Bodies == UNION {[1..n -> Lines] : n \in 0..MaxLines}

\* the bodies a tool call of the protocol model is answered with
SessionBodies ==
    {<<>>,
     <<DataLine(TJson(JObj([result |-> OkStructured])))>>,
     <<DataLine(TJson(JObj([error |-> JObj([message |-> JStr("boom")])])))>>}

(***************************************************************************)
(* State.                                                                  *)
(***************************************************************************)
VARIABLES
    adk_agent,              \* _adk_agent is not None (adk_mcp_integration.py)
    mcp_client_fixed,       \* _mcp_client_fixed is not None
    session,                \* MCPClientFixed.session: None or the handle
    handles,                \* ClientSession objects created so far
    request_id,             \* MCPClientFixed._request_id
    session_id,             \* MCPClientFixed._session_id: None or the token
    authenticated_user_id,  \* MCPClientFixed._authenticated_user_id
    initialized,            \* MCPClientFixed._initialized
    pc,                     \* where each caller is suspended
    hdr,                    \* headers['mcp-session-id'] of the caller's handshake
    port,                   \* index in Ports of the probe awaited
    found,                  \* authenticated_user of the caller's bridge
    tool,                   \* the tool the caller invoked
    ret,                    \* how the caller's last invocation ended
    trace,                  \* requests the caller's invocation has sent
    sent_ids,               \* JSON-RPC ids put on the wire, in build order
    srv_tokens,             \* session tokens the server has issued
    calls,                  \* invocations started
    lifecycle,              \* reset / close operations done
    reset_pending,          \* a reset has happened and no invocation since
    post_reset,             \* the caller's invocation is the first after a reset
    reset_token,            \* _session_id when the last reset happened
    response_text,          \* the body given to the normalizer
    parsed,                 \* what the normalizer returned for it
    agent_pc,               \* where analyze_marketing_query is suspended
    selected_tools,         \* analyze_marketing_query: selected_tools (the names)
    executed,               \* the tools _execute_tool has been called for
    tool_results,           \* analyze_marketing_query: tool_results
    response_data           \* what analyze_marketing_query returned

clientVars == <<session, handles, request_id, session_id, authenticated_user_id,
                initialized>>
callerVars == <<pc, hdr, port, found, tool, ret>>
wireVars == <<trace, sent_ids>>
lifeVars == <<lifecycle, reset_pending, post_reset, reset_token>>
parseVars == <<response_text, parsed>>
agentVars == <<agent_pc, selected_tools, executed, tool_results, response_data>>
vars == <<adk_agent, mcp_client_fixed, clientVars, callerVars, wireVars, srv_tokens,
          calls, lifeVars, parseVars, agentVars>>

\* a request on the wire: which exchange ("init1" the bare initialize,
\* "init2" the full one, "sync" the identity sync, "notify" the initialized
\* notification, "tool" tools/call, "lookup" the identity lookup) and the
\* mcp-session-id header it carries (None when absent)
Req(kind, header) == [kind |-> kind, hdr |-> header]

\* return {"error": "No authenticated user", "success": False}
NoIdentityError == ErrorValue(JStr("No authenticated user"))

NoReturn == [st |-> "none"]
Returned(v) == [st |-> "returned", v |-> v]
Raises == [st |-> "raised"]

\* MCPClientFixed.__init__ and the two module singletons
ProtocolInit ==
    /\ adk_agent = FALSE
    /\ mcp_client_fixed = FALSE
    /\ session = None
    /\ handles = 0
    /\ request_id = 0
    /\ session_id = None
    /\ authenticated_user_id = NoUser
    /\ initialized = FALSE
    /\ pc = [p \in Procs |-> "idle"]
    /\ hdr = [p \in Procs |-> None]
    /\ port = [p \in Procs |-> 0]
    /\ found = [p \in Procs |-> NoUser]
    /\ tool = [p \in Procs |-> ToolNoAuth]
    /\ ret = [p \in Procs |-> NoReturn]
    /\ trace = [p \in Procs |-> <<>>]
    /\ sent_ids = <<>>
    /\ srv_tokens = 0
    /\ calls = 0
    /\ lifecycle = 0
    /\ reset_pending = FALSE
    /\ post_reset = [p \in Procs |-> FALSE]
    /\ reset_token = None
    /\ agent_pc = "idle"
    /\ selected_tools = <<>>
    /\ executed = <<>>
    /\ tool_results = <<>>
    /\ response_data = NoReturn

Init ==
    /\ ProtocolInit
    /\ response_text = <<>>
    /\ parsed = NoReturn

(***************************************************************************)
(* Segments of call_tool and _initialize_mcp_session.  Each one runs from  *)
(* a point of the code to the next await of an exchange (or to the         *)
(* return), and says what becomes of session, handles, request_id, trace,  *)
(* sent_ids and of the caller's pc, hdr, port, found and ret.  `base` is   *)
(* the caller's trace so far (empty when the invocation starts).           *)
(***************************************************************************)
\* the caller is suspended at `where` (or back in its own code when "idle")
\* with locals h, i, f; the locals of a call die when it returns or raises
Jump(p, where, h, i, f, r) ==
    /\ pc' = [pc EXCEPT ![p] = where]
    /\ hdr' = [hdr EXCEPT ![p] = h]
    /\ port' = [port EXCEPT ![p] = i]
    /\ found' = [found EXCEPT ![p] = f]
    /\ ret' = [ret EXCEPT ![p] = r]
Goto(p, where) == Jump(p, where, hdr[p], 0, found[p], NoReturn)
Return(p, v) == Jump(p, "idle", None, 0, NoUser, Returned(v))
Raise(p) == Jump(p, "idle", None, 0, NoUser, Raises)

\* session.post / session.get: the request goes on the wire
Send(p, base, kind, id, header) ==
    /\ trace' = [trace EXCEPT ![p] = Append(base, Req(kind, header))]
    /\ sent_ids' = IF id # None THEN Append(sent_ids, id) ELSE sent_ids
NoSend(p, base) ==
    /\ trace' = [trace EXCEPT ![p] = base]
    /\ UNCHANGED sent_ids

\* _next_id that wraps around instead of counting on
NextIdWraps(id) == (id % 2) + 1

\* _next_id
NextId(id) == id + 1

\* an _ensure_session that builds a new ClientSession on every call
EnsureSessionAlways(s, n) == n + 1

\* _ensure_session: a new handle only when there is none
EnsureSession(s, n) == IF s = None THEN n + 1 ELSE s

\* call_tool without the "if not self._initialized: return None" check
ToolCallSegUnguarded(p, init, sid, base) ==
    /\ UNCHANGED <<session, handles>>
    /\ request_id' = NextId(request_id)
    /\ IF session = None
       THEN Return(p, PyNone) /\ NoSend(p, base)
       ELSE /\ Send(p, base, "tool", NextId(request_id), sid)
            /\ Goto(p, "tool_wait")

\* call_tool, lines 245-278, with `init` the value of _initialized and `sid`
\* the value of _session_id: no request unless initialized; the id is taken
\* when the request is built; the session header is added only when
\* _session_id is not None; self.session.post on a released transport is an
\* AttributeError inside the try, so None is returned.
ToolCallSeg(p, init, sid, base) ==
    /\ UNCHANGED <<session, handles>>
    /\ IF ~init
       THEN Return(p, PyNone) /\ NoSend(p, base) /\ UNCHANGED request_id
       ELSE /\ request_id' = NextId(request_id)
            /\ IF session = None
               THEN Return(p, PyNone) /\ NoSend(p, base)
               ELSE /\ Send(p, base, "tool", NextId(request_id), sid)
                    /\ Goto(p, "tool_wait")

\* where a caller is while its handshake is running
HandshakePcs == {"init1_wait", "init2_wait", "probe_wait", "sync_wait", "notify_wait"}

\* a handshake with a guard: a caller that finds another caller's handshake
\* running does not start its own
InitializeSegSingleFlight(p, init, sid, base) ==
    IF init
    THEN ToolCallSeg(p, init, sid, base)
    ELSE IF \E q \in Procs \ {p} : pc[q] \in HandshakePcs
         THEN /\ Return(p, PyNone) /\ NoSend(p, base)
              /\ UNCHANGED <<session, handles, request_id>>
         ELSE /\ session' = EnsureSession(session, handles)
              /\ handles' = IF session = None THEN handles + 1 ELSE handles
              /\ request_id' = NextId(request_id)
              /\ Send(p, base, "init1", NextId(request_id), None)
              /\ Goto(p, "init1_wait")

\* a handshake that resumes after the bare initialize when a token is
\* already held, instead of starting over
InitializeSegResumes(p, init, sid, base) ==
    IF init
    THEN ToolCallSeg(p, init, sid, base)
    ELSE /\ session' = EnsureSession(session, handles)
         /\ handles' = IF session = None THEN handles + 1 ELSE handles
         /\ request_id' = NextId(request_id)
         /\ IF sid # None
            THEN /\ Send(p, base, "init2", NextId(request_id), sid)
                 /\ Jump(p, "init2_wait", sid, 0, NoUser, NoReturn)
            ELSE /\ Send(p, base, "init1", NextId(request_id), None)
                 /\ Goto(p, "init1_wait")

\* call_tool line 243 and _initialize_mcp_session lines 160-182: nothing to
\* do when initialized, else the transport is ensured and the bare
\* initialize request goes out with fresh headers
InitializeSeg(p, init, sid, base) ==
    IF init
    THEN ToolCallSeg(p, init, sid, base)
    ELSE /\ session' = EnsureSession(session, handles)
         /\ handles' = IF session = None THEN handles + 1 ELSE handles
         /\ request_id' = NextId(request_id)
         /\ Send(p, base, "init1", NextId(request_id), None)
         /\ Goto(p, "init1_wait")

\* lines 224-231: the initialized notification, with the headers of this
\* handshake; on a released transport the AttributeError propagates
NotifySeg(p) ==
    /\ UNCHANGED <<session, handles, request_id>>
    /\ IF session = None
       THEN Raise(p) /\ NoSend(p, trace[p])
       ELSE /\ Send(p, trace[p], "notify", None, hdr[p])
            /\ Goto(p, "notify_wait")

\* a bridge that gives up without probing and goes on to step 4
BridgeNextSkipsProbes(p, i) == NotifySeg(p)

\* a bridge whose failure aborts the handshake instead of going on to step 4
BridgeNextAborts(p, i) ==
    IF session = None \/ i > Len(Ports)
    THEN /\ Raise(p) /\ NoSend(p, trace[p])
         /\ UNCHANGED <<session, handles, request_id>>
    ELSE /\ UNCHANGED <<session, handles, request_id, wireVars>>
         /\ Jump(p, "probe_wait", hdr[p], i, found[p], NoReturn)

\* _authenticate_google_oauth lines 66-85 from the i-th port on: the next
\* probe, or "return False" and step 4 when the list is exhausted (on a
\* released transport every remaining probe raises and is skipped)
BridgeNext(p, i) ==
    IF session = None \/ i > Len(Ports)
    THEN NotifySeg(p)
    ELSE /\ UNCHANGED <<session, handles, request_id, wireVars>>
         /\ Jump(p, "probe_wait", hdr[p], i, found[p], NoReturn)

(***************************************************************************)
(* Operations.                                                             *)
(***************************************************************************)
\* What the tool server and the local authority may answer.
LookupOutcomes == {"exception", "unauthenticated"} \cup Users
Init1Outcomes == {"exception", "no_token", "token"}
\* the full initialize: the post raises (as does a frame whose result is not
\* an object, at line 212), or it is answered with a frame that has a result
\* ("acknowledged"), or with anything else: another status, a body without a
\* parsable frame, an error frame ("unparsable")
Init2Outcomes == {"exception", "unparsable", "acknowledged"}
ProbeOutcomes == {"fail"} \cup Users
SyncOutcomes == {"exception", "rejected", "confirmed"}

\* A caller gets the agent (get_adk_marketing_agent creates the agent and,
\* through initialize and get_mcp_client_fixed, the client when missing) and
\* invokes a tool without giving a user id: call_tool for a tool that needs
\* no identity, get_google_ads_accounts() (lines 480-489) for one that does,
\* which first runs _get_authenticated_user_id (lines 128-137), or
\* query_google_ads_data(None) (lines 502-526), which goes to call_tool.
Invoke(p, name) ==
    /\ pc[p] = "idle"
    /\ calls < MaxCalls
    /\ calls' = calls + 1
    /\ adk_agent' = TRUE
    /\ mcp_client_fixed' = TRUE
    /\ tool' = [tool EXCEPT ![p] = name]
    /\ IF name = ToolAuth /\ authenticated_user_id = NoUser
       THEN /\ session' = EnsureSession(session, handles)
            /\ handles' = IF session = None THEN handles + 1 ELSE handles
            /\ Send(p, <<>>, "lookup", None, None)
            /\ Goto(p, "lookup_wait")
            /\ UNCHANGED request_id
       ELSE InitializeSeg(p, initialized, session_id, <<>>)
    /\ post_reset' = [post_reset EXCEPT ![p] = reset_pending]
    /\ reset_pending' = FALSE
    /\ UNCHANGED <<session_id, authenticated_user_id, initialized, srv_tokens,
                   lifecycle, reset_token, parseVars, agentVars>>

\* _get_authenticated_user_id lines 137-158, then the facade method: the
\* user id is cached and call_tool starts, or the error value is returned
LookupResp(p, outcome) ==
    /\ pc[p] = "lookup_wait"
    /\ IF outcome \in Users
       THEN /\ authenticated_user_id' = outcome
            /\ InitializeSeg(p, initialized, session_id, trace[p])
       ELSE /\ Return(p, NoIdentityError)
            /\ UNCHANGED <<authenticated_user_id, session, handles, request_id, wireVars>>
    /\ UNCHANGED <<adk_agent, mcp_client_fixed, session_id, initialized, tool,
                   srv_tokens, calls, lifeVars, parseVars, agentVars>>

\* lines 182-204: the answer to the bare initialize; a token in the
\* mcp-session-id header is stored and put in this handshake's headers; then
\* the full initialize request is built and posted
Init1Resp(p, outcome) ==
    /\ pc[p] = "init1_wait"
    /\ IF outcome = "exception"
       THEN /\ Raise(p)
            /\ UNCHANGED <<session, handles, request_id, wireVars, session_id, srv_tokens>>
       ELSE LET got == IF outcome = "token" THEN srv_tokens + 1 ELSE None
                sid == IF got # None THEN got ELSE session_id
            IN  /\ srv_tokens' = IF outcome = "token" THEN srv_tokens + 1 ELSE srv_tokens
                /\ session_id' = sid
                /\ request_id' = NextId(request_id)
                /\ UNCHANGED <<session, handles>>
                /\ IF session = None
                   THEN Raise(p) /\ NoSend(p, trace[p])
                   ELSE /\ Send(p, trace[p], "init2", NextId(request_id), got)
                        /\ Jump(p, "init2_wait", got, 0, NoUser, NoReturn)
    /\ UNCHANGED <<adk_agent, mcp_client_fixed, authenticated_user_id, initialized,
                   tool, calls, lifeVars, parseVars, agentVars>>

\* a handshake that goes from the full initialize straight to the
\* notification, without the identity bridge
Init2RespSkipsBridge(p, outcome) ==
    /\ pc[p] = "init2_wait"
    /\ IF outcome = "exception"
       THEN Raise(p) /\ UNCHANGED <<session, handles, request_id, wireVars>>
       ELSE NotifySeg(p)
    /\ UNCHANGED <<adk_agent, mcp_client_fixed, session_id, authenticated_user_id,
                   initialized, tool, srv_tokens, calls, lifeVars, parseVars, agentVars>>

\* lines 204-222: the answer to the full initialize is only printed; the
\* identity bridge starts with the first port
Init2Resp(p, outcome) ==
    /\ pc[p] = "init2_wait"
    /\ IF outcome = "exception"
       THEN Raise(p) /\ UNCHANGED <<session, handles, request_id, wireVars>>
       ELSE BridgeNext(p, 1)
    /\ UNCHANGED <<adk_agent, mcp_client_fixed, session_id, authenticated_user_id,
                   initialized, tool, srv_tokens, calls, lifeVars, parseVars, agentVars>>

\* _authenticate_google_oauth lines 69-106: a probe that fails (exception,
\* status, not authenticated) moves to the next port; the first affirmative
\* answer ends the loop and the identity is sent to the remote sync endpoint
\* with the handshake's headers (on a released transport the AttributeError
\* is caught at line 122 and step 4 follows)
ProbeResp(p, outcome) ==
    /\ pc[p] = "probe_wait"
    /\ IF outcome = "fail"
       THEN BridgeNext(p, port[p] + 1)
       ELSE IF session = None
            THEN NotifySeg(p)
            ELSE /\ Send(p, trace[p], "sync", None, hdr[p])
                 /\ Jump(p, "sync_wait", hdr[p], 0, outcome, NoReturn)
                 /\ UNCHANGED <<session, handles, request_id>>
    /\ UNCHANGED <<adk_agent, mcp_client_fixed, session_id, authenticated_user_id,
                   initialized, tool, srv_tokens, calls, lifeVars, parseVars, agentVars>>

\* a sync that stores the discovered identity whatever the remote answers
SyncRespCachesAlways(p, outcome) ==
    /\ pc[p] = "sync_wait"
    /\ authenticated_user_id' = found[p]
    /\ NotifySeg(p)
    /\ UNCHANGED <<adk_agent, mcp_client_fixed, session_id, initialized, tool,
                   srv_tokens, calls, lifeVars, parseVars, agentVars>>

\* lines 106-126 and 224-231: the remote confirms (the user id is cached) or
\* not; either way the handshake goes on to the notification
SyncResp(p, outcome) ==
    /\ pc[p] = "sync_wait"
    /\ authenticated_user_id' =
           IF outcome = "confirmed" THEN found[p] ELSE authenticated_user_id
    /\ NotifySeg(p)
    /\ UNCHANGED <<adk_agent, mcp_client_fixed, session_id, initialized, tool,
                   srv_tokens, calls, lifeVars, parseVars, agentVars>>

\* line 231: the post of the notification raises; the exception leaves
\* _initialize_mcp_session and call_tool
NotifyFailed(p) ==
    /\ pc[p] = "notify_wait"
    /\ Raise(p)
    /\ UNCHANGED <<adk_agent, mcp_client_fixed, clientVars, tool, wireVars,
                   srv_tokens, calls, lifeVars, parseVars, agentVars>>

\* a status check that takes 200 alone as confirmation
NotifyAcceptedOnly200(status) == status = 200

\* response.status in [200, 202]
NotifyAccepted(status) == status \in {200, 202}

\* lines 231-236, then call_tool lines 245-278
NotifyResp(p, status) ==
    /\ pc[p] = "notify_wait"
    /\ initialized' = (initialized \/ NotifyAccepted(status))
    /\ ToolCallSeg(p, initialized', session_id, trace[p])
    /\ UNCHANGED <<adk_agent, mcp_client_fixed, session_id, authenticated_user_id,
                   tool, srv_tokens, calls, lifeVars, parseVars, agentVars>>

\* call_tool lines 281-287: the value returned for the answer to tools/call
ToolResult(status, body) == IF status = 200 THEN ParseSSE(body) ELSE PyNone

\* an except branch that posts the tools/call request again
ToolFailedRetries(p) ==
    /\ pc[p] = "tool_wait"
    /\ request_id' = NextId(request_id)
    /\ Send(p, trace[p], "tool", NextId(request_id), session_id)
    /\ Goto(p, "tool_wait")
    /\ UNCHANGED <<adk_agent, mcp_client_fixed, session, handles, session_id,
                   authenticated_user_id, initialized, tool, srv_tokens, calls,
                   lifeVars, parseVars, agentVars>>

\* an except branch that tears the shared session down before returning None
ToolFailedClosesSession(p) ==
    /\ pc[p] = "tool_wait"
    /\ Return(p, PyNone)
    /\ session' = None
    /\ initialized' = FALSE
    /\ UNCHANGED <<adk_agent, mcp_client_fixed, handles, request_id, session_id,
                   authenticated_user_id, tool, wireVars, srv_tokens, calls,
                   lifeVars, parseVars, agentVars>>

\* call_tool lines 289-293: a timeout or connection error of the tools/call
\* exchange is caught and None returned
ToolFailed(p) ==
    /\ pc[p] = "tool_wait"
    /\ Return(p, PyNone)
    /\ UNCHANGED <<adk_agent, mcp_client_fixed, clientVars, tool, wireVars,
                   srv_tokens, calls, lifeVars, parseVars, agentVars>>

\* call_tool lines 278-287
ToolResp(p, status, body) ==
    /\ pc[p] = "tool_wait"
    /\ Return(p, ToolResult(status, body))
    /\ UNCHANGED <<adk_agent, mcp_client_fixed, clientVars, tool, wireVars,
                   srv_tokens, calls, lifeVars, parseVars, agentVars>>

\* MCPClientFixed.close (lines 565-569).  aiohttp refuses requests on a
\* closed session with an exception, which the exchanges' failure outcomes
\* cover, so closing the session and clearing the field are one step.
CloseSession(s) == None

Close ==
    /\ mcp_client_fixed
    /\ lifecycle < MaxLifecycle
    /\ lifecycle' = lifecycle + 1
    /\ session' = IF session # None THEN CloseSession(session) ELSE session
    /\ UNCHANGED <<adk_agent, mcp_client_fixed, handles, request_id, session_id,
                   authenticated_user_id, initialized, callerVars, wireVars,
                   srv_tokens, calls, reset_pending, post_reset, reset_token,
                   parseVars, agentVars>>

\* reset_adk_marketing_agent (lines 1171-1177) with ADKMarketingAgent.close
\* (lines 110-114): the agent's client is closed and the agent singleton
\* dropped; the client singleton of mcp_client_fixed.py is left in place
Reset ==
    /\ lifecycle < MaxLifecycle
    /\ lifecycle' = lifecycle + 1
    /\ adk_agent' = FALSE
    /\ session' = IF adk_agent /\ session # None THEN CloseSession(session) ELSE session
    /\ reset_pending' = TRUE
    /\ reset_token' = session_id
    /\ UNCHANGED <<mcp_client_fixed, handles, request_id, session_id,
                   authenticated_user_id, initialized, callerVars, wireVars,
                   srv_tokens, calls, post_reset, parseVars, agentVars>>

(***************************************************************************)
(* Fan-out / fan-in of creative_endpoint.py: the calls are tasks on the    *)
(* shared client (the callers above) awaited with                          *)
(* asyncio.gather(..., return_exceptions=True).                            *)
(***************************************************************************)
\* every awaited call has ended, by a return or by an exception
AllDone(rets) == \A q \in DOMAIN rets : rets[q] # NoReturn

\* a gather that re-raises the first exception: no result reaches the caller
GatherFailFast(rets) ==
    IF \E q \in DOMAIN rets : rets[q] = Raises
    THEN [q \in DOMAIN rets |-> [exception |-> TRUE]]
    ELSE [q \in DOMAIN rets |-> [exception |-> FALSE, value |-> rets[q].v]]

\* asyncio.gather(..., return_exceptions=True): one entry per call, in call
\* order, the exception itself for a call that raised
Gather(rets) ==
    [q \in DOMAIN rets |->
        IF rets[q] = Raises THEN [exception |-> TRUE]
        ELSE [exception |-> FALSE, value |-> rets[q].v]]

Next ==
    \/ \E p \in Procs, name \in Tools : Invoke(p, name)
    \/ \E p \in Procs, o \in LookupOutcomes : LookupResp(p, o)
    \/ \E p \in Procs, o \in Init1Outcomes : Init1Resp(p, o)
    \/ \E p \in Procs, o \in Init2Outcomes : Init2Resp(p, o)
    \/ \E p \in Procs, o \in ProbeOutcomes : ProbeResp(p, o)
    \/ \E p \in Procs, o \in SyncOutcomes : SyncResp(p, o)
    \/ \E p \in Procs : NotifyFailed(p)
    \/ \E p \in Procs, st \in Statuses : NotifyResp(p, st)
    \/ \E p \in Procs : ToolFailed(p)
    \/ \E p \in Procs, st \in Statuses, body \in SessionBodies : ToolResp(p, st, body)
    \/ Close
    \/ Reset

Spec == Init /\ [][Next]_vars

(***************************************************************************)
(* The normalizer on its own: any body, one call of _parse_sse_response.   *)
(***************************************************************************)
InitParse ==
    /\ ProtocolInit
    /\ response_text \in Bodies
    /\ parsed = NoReturn

Normalize ==
    /\ parsed = NoReturn
    /\ parsed' = Returned(ParseSSE(response_text))
    /\ UNCHANGED <<adk_agent, mcp_client_fixed, clientVars, callerVars, wireVars,
                   srv_tokens, calls, lifeVars, response_text, agentVars>>

NextParse == Normalize

SpecParse == InitParse /\ [][NextParse]_vars

(***************************************************************************)
(* The transport on its own: tasks that call _ensure_session and close on  *)
(* the client, in any order.  _ensure_session has no await and is one      *)
(* step; close awaits session.close() before it clears the field, so       *)
(* another task may run in between.  `calls` counts the calls made.        *)
(***************************************************************************)
\* _ensure_session (lines 34-56)
EnsureSessionCall(p) ==
    /\ pc[p] = "idle"
    /\ calls < MaxTransportOps
    /\ calls' = calls + 1
    /\ session' = EnsureSession(session, handles)
    /\ handles' = IF session' # session THEN handles + 1 ELSE handles
    /\ ret' = [ret EXCEPT ![p] = Returned(PyNone)]
    /\ UNCHANGED <<adk_agent, mcp_client_fixed, request_id, session_id,
                   authenticated_user_id, initialized, pc, hdr, port, found, tool,
                   wireVars, srv_tokens, lifeVars, parseVars, agentVars>>

\* close, lines 565-568: nothing to do without a session, else the task
\* waits for session.close()
CloseCall(p) ==
    /\ pc[p] = "idle"
    /\ calls < MaxTransportOps
    /\ calls' = calls + 1
    /\ IF session # None
       THEN /\ pc' = [pc EXCEPT ![p] = "closing"]
            /\ ret' = [ret EXCEPT ![p] = NoReturn]
       ELSE /\ ret' = [ret EXCEPT ![p] = Returned(PyNone)]
            /\ UNCHANGED pc
    /\ UNCHANGED <<adk_agent, mcp_client_fixed, clientVars, hdr, port, found, tool,
                   wireVars, srv_tokens, lifeVars, parseVars, agentVars>>

\* close, line 569: self.session = None
CloseDone(p) ==
    /\ pc[p] = "closing"
    /\ session' = CloseSession(session)
    /\ pc' = [pc EXCEPT ![p] = "idle"]
    /\ ret' = [ret EXCEPT ![p] = Returned(PyNone)]
    /\ UNCHANGED <<adk_agent, mcp_client_fixed, handles, request_id, session_id,
                   authenticated_user_id, initialized, hdr, port, found, tool,
                   wireVars, srv_tokens, calls, lifeVars, parseVars, agentVars>>

NextTransport ==
    \/ \E p \in Procs : EnsureSessionCall(p)
    \/ \E p \in Procs : CloseCall(p)
    \/ \E p \in Procs : CloseDone(p)

SpecTransport == Init /\ [][NextTransport]_vars

(***************************************************************************)
(* ADKMarketingAgent.analyze_marketing_query: the tools selected for a     *)
(* question are executed one after the other, each _execute_tool call      *)
(* being awaited before the next; the whole body is inside one             *)
(* try / except Exception.                                                 *)
(***************************************************************************)
ToolGA4 == "get_ga4_properties"
ToolInsights == "get_comprehensive_insights"
QueryTools == {ToolQuery, "query_ga4_data", ToolInsights}

\* a question, by the words _select_tools_for_query looks for in it: one of
\* the platform words, one of the account-listing words, "campaign"
Queries == [platform : BOOLEAN, accounts : BOOLEAN, campaign : BOOLEAN]

\* selected.sort(key=lambda x: x['priority']): a stable sort
RECURSIVE SortByPriority(_)
SortByPriority(selected) ==
    IF Len(selected) <= 1 THEN selected
    ELSE LET rest == SortByPriority(Tail(selected))
             head == Head(selected)
             before == SelectSeq(rest, LAMBDA e : e.priority < head.priority)
             after == SelectSeq(rest, LAMBDA e : e.priority >= head.priority)
         IN  before \o <<head>> \o after

\* _select_tools_for_query (lines 701-735)
SelectToolsForQuery(q) ==
    SortByPriority(
        IF q.platform THEN <<[name |-> ToolNoAuth, priority |-> 1]>>
        ELSE IF q.accounts /\ ~q.campaign
             THEN <<[name |-> ToolAuth, priority |-> 1], [name |-> ToolGA4, priority |-> 2]>>
             ELSE <<[name |-> ToolInsights, priority |-> 1]>>)

\* what call_tool returns: None when the call failed (lines 245-247 and
\* 289-293), else the normalizer's value for the response body (line 287)
CallToolReturns == {PyNone} \cup {ParseSSE(b) : b \in Bodies}

\* _execute_tool: its own except turns an exception into an error value
ExecutionFailed == JObj([error |-> JStr("Tool execution failed")])

\* _execute_tool: what it returns for a tool.  get_platform_examples goes
\* straight to call_tool; the account tools and the insights tool may stop
\* at the identity check; the insights tool may raise on the account lookup.
ExecuteToolReturns(name) ==
    CASE name = ToolNoAuth -> CallToolReturns
      [] name \in {ToolAuth, ToolGA4} -> CallToolReturns \cup {NoIdentityError}
      [] name = ToolInsights -> CallToolReturns \cup {NoIdentityError, ExecutionFailed}
      [] OTHER -> {JObj([error |-> JStr("Unknown tool")])}

\* result.get('error') on a dict
DictGet(d, k) == IF k \in DOMAIN d.f THEN d.f[k] ELSE PyNone

\* lines 561-565: the entry a tool contributes
ToolEntry(name, result) ==
    [tool |-> name, success |-> ~Truthy(DictGet(result, "error")), data |-> result]

\* lines 692-699: the answer of the outer except
ErrorResponse == [success |-> FALSE, error |-> "exception"]

\* lines 585-598: google_ads_data or ga4_data or comprehensive_data
HasMarketingData(results) ==
    \E i \in 1..Len(results) :
        results[i].success /\ results[i].tool \in QueryTools /\ Truthy(results[i].data)

\* lines 571-579 and 683-690: the answer after the loop
ResponseData(results) ==
    [success |-> HasMarketingData(results), tools_executed |-> Len(results),
     raw_results |-> results]

AgentOutcomes == {"ok", "exception"}

\* lines 514-552: intent analysis and tool selection; an exception of the
\* intent agent, or user_context being None at line 545, ends the call in
\* the outer except
AnalyzeQuery(q, outcome) ==
    /\ agent_pc = "idle"
    /\ IF outcome = "ok"
       THEN /\ selected_tools' = [i \in 1..Len(SelectToolsForQuery(q)) |->
                                     SelectToolsForQuery(q)[i].name]
            /\ agent_pc' = "loop"
            /\ UNCHANGED response_data
       ELSE /\ response_data' = Returned(ErrorResponse)
            /\ agent_pc' = "done"
            /\ UNCHANGED selected_tools
    /\ UNCHANGED <<adk_agent, mcp_client_fixed, clientVars, callerVars, wireVars,
                   srv_tokens, calls, lifeVars, parseVars, executed, tool_results>>

\* lines 553-565, one turn of the loop: _execute_tool has returned `result`;
\* result.get raises AttributeError when result is not a dict, and the
\* outer except answers
ExecuteTool(result) ==
    /\ agent_pc = "loop"
    /\ LET name == selected_tools[Len(executed) + 1]
       IN  /\ result \in ExecuteToolReturns(name)
           /\ executed' = Append(executed, name)
           /\ IF result.t = "obj"
              THEN /\ tool_results' = Append(tool_results, ToolEntry(name, result))
                   /\ agent_pc' = IF Len(executed') = Len(selected_tools)
                                  THEN "synth" ELSE "loop"
                   /\ UNCHANGED response_data
              ELSE /\ response_data' = Returned(ErrorResponse)
                   /\ agent_pc' = "done"
                   /\ UNCHANGED tool_results
    /\ UNCHANGED <<adk_agent, mcp_client_fixed, clientVars, callerVars, wireVars,
                   srv_tokens, calls, lifeVars, parseVars, selected_tools>>

\* lines 567-699: synthesis and formatting, then the answer; an exception
\* there ends in the outer except too
AnalyzeReturn(outcome) ==
    /\ agent_pc = "synth"
    /\ agent_pc' = "done"
    /\ response_data' = IF outcome = "ok" THEN Returned(ResponseData(tool_results))
                        ELSE Returned(ErrorResponse)
    /\ UNCHANGED <<adk_agent, mcp_client_fixed, clientVars, callerVars, wireVars,
                   srv_tokens, calls, lifeVars, parseVars, selected_tools, executed,
                   tool_results>>

NextAnalyze ==
    \/ \E q \in Queries, outcome \in AgentOutcomes : AnalyzeQuery(q, outcome)
    \/ \E result \in UNION {ExecuteToolReturns(n) : n \in {ToolNoAuth, ToolAuth, ToolGA4, ToolInsights}} :
          ExecuteTool(result)
    \/ \E outcome \in AgentOutcomes : AnalyzeReturn(outcome)

SpecAnalyze == Init /\ [][NextAnalyze]_vars

(***************************************************************************)
(* Properties.                                                             *)
(***************************************************************************)
Last(seq) == seq[Len(seq)]
HasKind(tr, k) == \E i \in 1..Len(tr) : tr[i].kind = k
Kinds(tr) == [i \in 1..Len(tr) |-> tr[i].kind]

\* the caller put a request on the wire in this step
SentNow(p) == trace'[p] # trace[p] /\ trace'[p] # <<>>

\* C1: a tools/call request is sent only when the session is READY; a
\* call_tool entered on a session that is not READY first sends the bare
\* initialize of the handshake, and a handshake that ends without READY is
\* followed by no tools/call request.
C1_ToolCallOnlyWhenReady ==
    /\ [](\A p \in Procs : pc[p] = "tool_wait" => initialized)
    /\ [][\A p \in Procs :
            /\ (pc'[p] = "tool_wait" /\ pc[p] # "tool_wait") =>
                   \/ pc[p] \in {"idle", "lookup_wait"} /\ initialized
                   \/ pc[p] = "notify_wait" /\ initialized'
            /\ (pc[p] \in {"idle", "lookup_wait"} /\ ~initialized
                    /\ pc'[p] \notin {"idle", "lookup_wait"}) =>
                   pc'[p] = "init1_wait" /\ Last(trace'[p]).kind = "init1"
            /\ (pc[p] = "notify_wait" /\ pc'[p] # "notify_wait" /\ ~initialized') =>
                   pc'[p] = "idle" /\ trace'[p] = trace[p]]_vars

\* a caller that found the session not READY has run the handshake and its
\* tools/call request is on the wire
C1_Witness ==
    \E p \in Procs :
        /\ pc[p] = "tool_wait"
        /\ Kinds(trace[p]) = <<"init1", "init2", "notify", "tool">>

\* C2: the first invocation after a reset runs the handshake again before it
\* sends its tool call (or returns), and its tool call does not carry the
\* session token the client held when the reset happened.
C2_ResetForcesHandshake ==
    \A p \in Procs :
        (post_reset[p] /\ (pc[p] = "tool_wait" \/ (pc[p] = "idle" /\ ret[p] = Returned(PyNone))))
            => /\ HasKind(trace[p], "init1") /\ HasKind(trace[p], "init2")
               /\ HasKind(trace[p], "notify")
               /\ \A i \in 1..Len(trace[p]) :
                      (trace[p][i].kind = "tool" /\ reset_token # None)
                          => trace[p][i].hdr # reset_token

\* C3: once the client holds a session token, every later request it puts on
\* the wire (the handshake steps after the bare initialize, the identity
\* sync, the identity lookup, the tool call) carries that token in its
\* session header.
C3_TokenEchoed ==
    [][\A p \in Procs :
          (SentNow(p) /\ Last(trace'[p]).kind # "init1" /\ session_id' # None) =>
              Last(trace'[p]).hdr = session_id']_vars

\* C4: the JSON-RPC ids put on the wire by one client instance are strictly
\* increasing in the order the requests are built, so none is used twice.
C4_IdsStrictlyIncreasing ==
    \A i, j \in 1..Len(sent_ids) : i < j => sent_ids[i] < sent_ids[j]

\* two callers have requests on the wire, one handshake has failed and
\* another attempt followed
C4_Witness ==
    /\ Len(sent_ids) >= 4
    /\ \E p, q \in Procs :
           /\ p # q
           /\ ret[p] = Raises
           /\ trace[q] # <<>> /\ pc[q] # "idle"

\* C5: when no probed local address answers affirmatively the handshake goes
\* on to the initialized notification; when that is accepted the session is
\* READY and the tools/call request is sent; the result of a tool that needs
\* no identity is returned to the caller.
C5_BridgeFailureNotFatal ==
    [][\A p \in Procs :
          /\ (ProbeResp(p, "fail") /\ port[p] = Len(Ports) /\ session # None) =>
                 pc'[p] = "notify_wait" /\ Last(trace'[p]) = Req("notify", hdr[p])
          /\ \A st \in {200, 202} :
                 (NotifyResp(p, st) /\ found[p] = NoUser /\ session # None) =>
                     /\ initialized'
                     /\ pc'[p] = "tool_wait"
                     /\ Last(trace'[p]).kind = "tool"
          /\ \A body \in SessionBodies :
                 (ToolResp(p, 200, body) /\ tool[p] = ToolNoAuth) =>
                     ret'[p] = Returned(ParseSSE(body))]_vars

\* no local authority answered, the session is READY, no identity is cached,
\* and the tool that needs none has returned its structured result
C5_Witness ==
    \E p \in Procs :
        /\ pc[p] = "idle" /\ tool[p] = ToolNoAuth
        /\ Kinds(trace[p]) = <<"init1", "init2", "notify", "tool">>
        /\ authenticated_user_id = NoUser
        /\ initialized
        /\ ret[p] = Returned(JObj([ok |-> JBool(TRUE)]))

\* C6: call_tool never ends by raising: whatever fails, the caller gets a
\* value back.
C6_NeverRaises == \A p \in Procs : ret[p] # Raises

\* C7: a tools/call exchange that fails (exception, status other than 200,
\* body without a frame) leaves the transport handle, the session token, the
\* ready flag and the cached identity as they were, and no other caller is
\* moved.
C7_FailedCallKeepsSharedState ==
    [][\A p \in Procs :
          (pc[p] = "tool_wait" /\ pc'[p] = "idle" /\ ret'[p] = Returned(PyNone)) =>
              /\ UNCHANGED <<session, session_id, initialized, authenticated_user_id>>
              /\ \A q \in Procs \ {p} :
                     pc'[q] = pc[q] /\ ret'[q] = ret[q] /\ hdr'[q] = hdr[q]]_vars

\* a tool call has failed while another caller's tool call is in flight on
\* the same open, READY session
C7_Witness ==
    \E p, q \in Procs :
        /\ p # q
        /\ pc[p] = "idle" /\ ret[p] = Returned(PyNone) /\ HasKind(trace[p], "tool")
        /\ pc[q] = "tool_wait"
        /\ session # None /\ initialized

(***************************************************************************)
(* Properties of the normalizer (under SpecParse).                         *)
(***************************************************************************)
\* the frame the normalizer selects in the body
Selected == ScanLines(response_text, 1)

\* the body has no parsable frame: no data line, or only the sentinel and
\* payloads json.loads rejects
NoFrame(body) ==
    \A i \in 1..Len(body) :
        ~(body[i].prefix = "data" /\ JsonLoads(body[i].payload).ok)

\* a value of the shape returned for a JSON-RPC error frame
IsErrorValue(v) ==
    /\ v.t = "obj"
    /\ DOMAIN v.f = {"error", "success"}
    /\ v.f.success = JBool(FALSE)

\* the error frames of the wire protocol: {"error": {"message": ...}}
WellFormedErrorFrames ==
    {f \in Frames : HasKey(f, "error") /\ HasKey(f.f.error, "message")}

\* C8: for a body without any parsable frame the normalizer returns None,
\* which is not the value it returns for any JSON-RPC error frame.
C8_NoFrameDistinctFromError ==
    (parsed # NoReturn /\ NoFrame(response_text)) =>
        /\ parsed.v = PyNone
        /\ ~IsErrorValue(parsed.v)
        /\ \A f \in WellFormedErrorFrames :
               /\ IsErrorValue(ParseSSE(<<DataLine(TJson(f))>>))
               /\ ParseSSE(<<DataLine(TJson(f))>>) # parsed.v

\* a body made of the sentinel and an unparsable payload has been normalized
C8_Witness ==
    /\ parsed # NoReturn
    /\ response_text = <<DataLine(TDone), DataLine(TPlain("oops"))>>

\* C9: when the selected frame has an error member (an object with a
\* message, as the wire protocol defines it) the normalizer returns the
\* error value built from error.message, whether or not the frame also has
\* a result.
C9_ErrorFrame ==
    (parsed # NoReturn /\ HasKey(Selected, "error") /\ HasKey(Selected.f.error, "message")) =>
        parsed = Returned(ErrorValue(Selected.f.error.f.message))

\* an error frame that also carries a result has been normalized
C9_Witness ==
    /\ parsed # NoReturn
    /\ HasKey(Selected, "error") /\ HasKey(Selected.f.error, "message")
    /\ HasKey(Selected, "result")
    /\ parsed = Returned(ErrorValue(JStr("boom")))

\* an element of result.content that exposes text
ExposesText(e) == HasKey(e, "text") /\ Truthy(e.f.text)

\* the first element of a content array that exposes text
FirstText(content) ==
    LET i == CHOOSE i \in 1..Len(content.items) :
                 /\ ExposesText(content.items[i])
                 /\ \A j \in 1..(i - 1) : ~ExposesText(content.items[j])
    IN  content.items[i].f.text

\* C10: when the frame has no error and result.content is an array with at
\* least one element exposing text, the normalizer returns the JSON value of
\* that text when it is JSON, and the text wrapped in a map when it is not.
C10_ContentDecoded ==
    (/\ parsed # NoReturn
     /\ Truthy(Selected) /\ Selected.t = "obj" /\ ~HasKey(Selected, "error")
     /\ HasKey(Selected, "result") /\ HasKey(Selected.f.result, "content")
     /\ Selected.f.result.f.content.t = "list"
     /\ \E i \in 1..Len(Selected.f.result.f.content.items) :
            ExposesText(Selected.f.result.f.content.items[i]))
        => LET text == FirstText(Selected.f.result.f.content)
           IN  parsed = Returned(IF JsonLoads(text.x).ok THEN JsonLoads(text.x).v
                                 ELSE JObj([text |-> text]))

\* the selected frame is an object without error whose result is an object
ResultFrame ==
    /\ Truthy(Selected) /\ Selected.t = "obj" /\ ~HasKey(Selected, "error")
    /\ HasKey(Selected, "result") /\ Selected.f.result.t = "obj"

\* no element of the result's content exposes text: content is absent, or
\* an array that is empty or made of elements without text
NoTextInContent(result) ==
    \/ ~HasKey(result, "content")
    \/ /\ result.f.content.t = "list"
       /\ \A i \in 1..Len(result.f.content.items) :
              ~ExposesText(result.f.content.items[i])

\* C11: when the frame has no error, no element of result.content exposes
\* text and result has a structuredContent member, the normalizer returns
\* that member.
C11_StructuredWhenNoText ==
    (/\ parsed # NoReturn
     /\ ResultFrame
     /\ NoTextInContent(Selected.f.result)
     /\ HasKey(Selected.f.result, "structuredContent"))
        => parsed = Returned(Selected.f.result.f.structuredContent)

\* C12: when the frame has no error and its result has neither content nor
\* structuredContent, the normalizer returns the result object itself.
C12_RawFallback ==
    (/\ parsed # NoReturn
     /\ ResultFrame
     /\ ~HasKey(Selected.f.result, "content")
     /\ ~HasKey(Selected.f.result, "structuredContent"))
        => parsed = Returned(Selected.f.result)

\* the result {"foo": "bar"} has been returned as it came
C12_Witness ==
    /\ parsed = Returned(JObj([foo |-> JStr("bar")]))
    /\ Selected = JObj([result |-> JObj([foo |-> JStr("bar")])])

\* C13: _ensure_session on an open transport keeps the handle and creates no
\* other one, and always leaves a handle; close never raises, and when it
\* returns the transport is released, whether or not it was already.
C13_TransportIdempotent ==
    [][\A p \in Procs :
          /\ EnsureSessionCall(p) =>
                 /\ session' # None
                 /\ session # None => (session' = session /\ handles' = handles)
          /\ (CloseCall(p) \/ CloseDone(p)) =>
                 /\ ret'[p] # Raises
                 /\ pc'[p] = "idle" => (session' = None /\ ret'[p] = Returned(PyNone))
                 /\ handles' = handles]_vars

\* one handle was ever created, four calls have returned and the transport
\* is released: two acquires without a release between them, and a close of
\* the released transport
C13_Witness ==
    /\ calls = 4 /\ handles = 1 /\ session = None
    /\ \A p \in Procs : pc[p] = "idle"
    /\ \E p \in Procs : ret[p] = Returned(PyNone)

\* requests of the caller's handshake so far: those of its trace other than
\* the tool call, and the probes of the identity bridge made so far
HandshakeExchanges(p) ==
    Cardinality({i \in 1..Len(trace[p]) : trace[p][i].kind # "tool"}) + port[p]

\* the caller invoked the tool without arguments and ran the handshake
RanHandshake(p) == tool[p] = ToolNoAuth /\ HasKind(trace[p], "init1")

\* C14 (as stated): the handshake of one invocation is exactly four
\* exchanges, so it never puts a fifth request on the wire.
C14_FourHandshakeExchanges ==
    \A p \in Procs : RanHandshake(p) => HandshakeExchanges(p) <= 4

\* C14: the handshake of one invocation is the bare initialize, the full
\* initialize, the identity bridge (one probe per local address until one
\* answers affirmatively, at most seven, then one identity sync when one
\* did) and the initialized notification, in this order, followed by exactly
\* one tools/call request; a response whose result holds only
\* structuredContent {ok: true} is returned to the caller as {ok: true}.
C14_EndToEnd ==
    /\ [](\A p \in Procs : RanHandshake(p) =>
            /\ pc[p] = "init1_wait" => Kinds(trace[p]) = <<"init1">>
            /\ pc[p] = "init2_wait" => Kinds(trace[p]) = <<"init1", "init2">>
            /\ pc[p] = "probe_wait" =>
                   Kinds(trace[p]) = <<"init1", "init2">> /\ port[p] \in 1..Len(Ports)
            /\ pc[p] = "sync_wait" => Kinds(trace[p]) = <<"init1", "init2", "sync">>
            /\ pc[p] = "notify_wait" =>
                   Kinds(trace[p]) \in {<<"init1", "init2", "notify">>,
                                        <<"init1", "init2", "sync", "notify">>}
            /\ HasKind(trace[p], "tool") =>
                   Kinds(trace[p]) \in {<<"init1", "init2", "notify", "tool">>,
                                        <<"init1", "init2", "sync", "notify", "tool">>})
    /\ [][\A p \in Procs :
            /\ (pc[p] = "init2_wait" /\ pc'[p] \notin {"init2_wait", "idle"}) =>
                   pc'[p] = "probe_wait" /\ port'[p] = 1
            /\ (pc[p] = "probe_wait" /\ pc'[p] = "probe_wait") =>
                   port'[p] \in {port[p], port[p] + 1}
            /\ (pc[p] = "probe_wait" /\ pc'[p] = "notify_wait") =>
                   port[p] = Len(Ports)
            /\ (ToolResp(p, 200, <<DataLine(TJson(JObj([result |-> OkStructured])))>>)
                    /\ RanHandshake(p)) =>
                   ret'[p] = Returned(JObj([ok |-> JBool(TRUE)]))]_vars

\* the caller's invocation ran the handshake with a bridged identity, sent
\* its one tool call and got {ok: true} back
C14_Witness ==
    \E p \in Procs :
        /\ pc[p] = "idle" /\ tool[p] = ToolNoAuth
        /\ Kinds(trace[p]) = <<"init1", "init2", "sync", "notify", "tool">>
        /\ ret[p] = Returned(JObj([ok |-> JBool(TRUE)]))

\* C15: a reset clears the cached identity, so that an identity cached
\* before the reset is resolved again before it is used.
C15_ResetClearsIdentity ==
    [][Reset => authenticated_user_id' = NoUser]_vars

\* C16: a tool that requires an identity, invoked while none is available,
\* returns the no-authenticated-user error value and sends no tools/call
\* request: a tools/call request of such a tool is on the wire only when the
\* client holds an identity.
C16_NoIdentityNoToolCall ==
    /\ [](\A p \in Procs :
            (tool[p] \in RequiresAuth /\ HasKind(trace[p], "tool")) =>
                authenticated_user_id # NoUser)
    /\ [][\A p \in Procs, o \in LookupOutcomes \ Users :
            LookupResp(p, o) =>
                ret'[p] = Returned(NoIdentityError) /\ trace'[p] = trace[p]]_vars

\* the caller's call ends in this step with an exception, None or an error
\* value
FailsNow(p) ==
    /\ pc[p] # "idle" /\ pc'[p] = "idle"
    /\ \/ ret'[p] = Raises
       \/ ret'[p] = Returned(PyNone)
       \/ ret'[p].st = "returned" /\ IsErrorValue(ret'[p].v)

\* C17: a call that fails (exception, None or error value) leaves every
\* other call on the shared client where it was, with its requests and its
\* result; and once all the awaited calls have ended the gather holds one
\* entry per call: the value of each call that returned, and the exception
\* of each call that raised.
C17_PartialFailureIsolated ==
    /\ [](AllDone(ret) =>
            \A q \in Procs :
                IF ret[q] = Raises THEN Gather(ret)[q].exception
                ELSE Gather(ret)[q] = [exception |-> FALSE, value |-> ret[q].v])
    /\ [][\A p \in Procs :
            FailsNow(p) =>
                \A q \in Procs \ {p} :
                    pc'[q] = pc[q] /\ ret'[q] = ret[q] /\ trace'[q] = trace[q]]_vars

\* two calls overlapped on the shared client (the one that returned sent its
\* tool call with the token the other one's handshake had obtained in the
\* meantime); one raised, the other returned {ok: true}, and both are in the
\* gather
C17_Witness ==
    \E p, q \in Procs :
        /\ p # q /\ AllDone(ret)
        /\ ret[p] = Raises /\ Len(trace[p]) >= 2
        /\ ret[q] = Returned(JObj([ok |-> JBool(TRUE)]))
        /\ Len(trace[q]) >= 2 /\ Last(trace[q]).kind = "tool"
        /\ trace[q][2].hdr # Last(trace[q]).hdr
        /\ trace[p][2].hdr = Last(trace[q]).hdr
        /\ Gather(ret)[p].exception /\ ~Gather(ret)[q].exception

\* how many requests of a kind the caller's invocation has sent
CountKind(tr, k) == Cardinality({i \in 1..Len(tr) : tr[i].kind = k})

\* C18: nothing is sent twice within one invocation: at most one tools/call
\* request and at most one request of each handshake step, whatever the
\* outcome; the answer to the tools/call request, or its failure, ends the
\* invocation, and a handshake step that fails ends it without any further
\* request.
C18_NoAutomaticRetry ==
    /\ [](\A p \in Procs :
            \A k \in {"lookup", "init1", "init2", "sync", "notify", "tool"} :
                CountKind(trace[p], k) <= 1)
    /\ [][\A p \in Procs :
            /\ (pc[p] = "tool_wait" /\ <<pc[p], ret[p], trace[p]>>' # <<pc[p], ret[p], trace[p]>>) =>
                   pc'[p] = "idle" /\ trace'[p] = trace[p]
            /\ (pc[p] # "idle" /\ ret'[p] = Raises) =>
                   pc'[p] = "idle" /\ trace'[p] = trace[p]]_vars

\* an invocation on a READY session sent its one tools/call request, which
\* failed, and returned None
C18_Witness ==
    \E p \in Procs :
        /\ pc[p] = "idle" /\ ret[p] = Returned(PyNone)
        /\ Kinds(trace[p]) = <<"tool">>
        /\ initialized

\* the requests of the caller's handshake: its trace without the identity
\* lookup that the facade may have made before call_tool
HandshakeKinds(tr) == SelectSeq(Kinds(tr), LAMBDA k : k # "lookup")

\* C19: the initialized notification is put on the wire only by a caller
\* whose handshake has had its two initialize requests answered and whose
\* identity bridge has ended (every local address probed without success, or
\* the identity sync answered); and the session becomes READY only in the
\* step that receives the answer to a notification.
C19_HandshakeOrder ==
    [][/\ \A p \in Procs :
            (SentNow(p) /\ Last(trace'[p]).kind = "notify") =>
                /\ \/ pc[p] = "probe_wait" /\ port[p] = Len(Ports)
                         /\ HandshakeKinds(trace[p]) = <<"init1", "init2">>
                   \/ pc[p] = "sync_wait"
                         /\ HandshakeKinds(trace[p]) = <<"init1", "init2", "sync">>
                /\ pc'[p] = "notify_wait"
                /\ initialized' = initialized
       /\ (~initialized /\ initialized') =>
              \E p \in Procs :
                  /\ pc[p] = "notify_wait" /\ pc'[p] # "notify_wait"
                  /\ Last(trace[p]).kind = "notify"
                  /\ ret'[p] # Raises]_vars

\* a handshake went through its steps in order with a bridged identity, the
\* session is READY and the caller's tool call is on the wire
C19_Witness ==
    \E p \in Procs :
        /\ pc[p] = "tool_wait" /\ initialized
        /\ Kinds(trace[p]) = <<"init1", "init2", "sync", "notify", "tool">>
        /\ authenticated_user_id # NoUser

\* C20: when the answer to the full initialize is unparsable or unexpected
\* the handshake stops there: the caller gets the failure back and the
\* session is not READY after the step.
C20_Step2FailureStops ==
    [][\A p \in Procs :
          Init2Resp(p, "unparsable") =>
              pc'[p] = "idle" /\ ret'[p] # NoReturn /\ ~initialized']_vars

\* a handshake step of the caller fails in this step with a network error or
\* a timeout
StepFailsNow(p) ==
    Init1Resp(p, "exception") \/ Init2Resp(p, "exception") \/ NotifyFailed(p)

C22_ReadyOnAcceptedNotification ==
    [][/\ \A p \in Procs, st \in Statuses :
            NotifyResp(p, st) =>
                IF st \in {200, 202}
                THEN initialized'
                ELSE /\ initialized' = initialized
                     /\ ~initialized =>
                            /\ pc'[p] = "idle" /\ ret'[p] = Returned(PyNone)
                            /\ trace'[p] = trace[p]
                            /\ ~HasKind(trace'[p], "tool")
       /\ (~initialized /\ initialized') =>
              \E p \in Procs : \E st \in {200, 202} : NotifyResp(p, st)]_vars

\* a notification was refused: the caller got None back, no tools/call was
\* sent and the session is not READY
C22_Witness ==
    \E p \in Procs :
        /\ pc[p] = "idle" /\ ret[p] = Returned(PyNone)
        /\ Kinds(trace[p]) = <<"init1", "init2", "notify">>
        /\ ~initialized /\ session # None

\* the caller is the only one that ever used the client
Alone(p) == \A q \in Procs \ {p} : trace[q] = <<>> /\ ret[q] = NoReturn

\* the session header of the initialized notification in the caller's
\* trace: the token its handshake acquired, None when it acquired none
HandshakeToken(tr) ==
    LET i == CHOOSE i \in 1..Len(tr) : tr[i].kind = "notify" IN tr[i].hdr

\* C23: a tools/call request carries the session header if and only if the
\* handshake that made the session READY acquired a token (stated for a
\* caller that is alone on the client and ran that handshake itself, with
\* no close or reset).
C23_HeaderIffTokenAcquired ==
    \A p \in Procs :
        (Alone(p) /\ lifecycle = 0 /\ HasKind(trace[p], "notify") /\ Last(trace[p]).kind = "tool") =>
            (Last(trace[p]).hdr # None <=> HandshakeToken(trace[p]) # None)

\* the data lines of the body that hold a parsable frame
ParsableLines(body) ==
    {i \in 1..Len(body) : body[i].prefix = "data" /\ JsonLoads(body[i].payload).ok}

\* C24: the normalizer's result is the one it gives for the first data line
\* that json.loads accepts, taken alone: the sentinel, unparsable payloads
\* and lines without the prefix before it are skipped, and whatever follows
\* it has no influence.
C24_FirstFrameUsed ==
    (parsed # NoReturn /\ ParsableLines(response_text) # {}) =>
        LET first == CHOOSE i \in ParsableLines(response_text) :
                         \A j \in ParsableLines(response_text) : i <= j
        IN  /\ Selected = JsonLoads(response_text[first].payload).v
            /\ parsed = Returned(ParseSSE(<<response_text[first]>>))

\* a body with two frames that normalize differently: the error frame comes
\* first and is the one returned
C24_Witness ==
    /\ parsed = Returned(ErrorValue(JStr("boom")))
    /\ response_text =
           <<DataLine(TJson(JObj([error |-> JObj([message |-> JStr("boom")])]))),
             DataLine(TJson(JObj([result |-> JObj([foo |-> JStr("bar")])])))>>

\* C25: the bridge probes the local addresses one after the other in the
\* order of the list; the first affirmative answer ends the probing and its
\* identity is sent to the remote sync endpoint; the identity is cached when
\* the remote confirms it and only then: a probe, a failed bridge (no
\* address left) and a sync that is rejected or fails leave the cached
\* identity as it was.
C25_BridgeCachesOnlyConfirmed ==
    [][\A p \in Procs :
          /\ ProbeResp(p, "fail") =>
                 /\ authenticated_user_id' = authenticated_user_id
                 /\ ~HasKind(trace'[p], "sync")
                 /\ IF port[p] < Len(Ports) /\ session # None
                    THEN pc'[p] = "probe_wait" /\ port'[p] = port[p] + 1
                    ELSE pc'[p] # "probe_wait"
          /\ \A u \in Users :
                 (ProbeResp(p, u) /\ session # None) =>
                     /\ pc'[p] = "sync_wait" /\ found'[p] = u
                     /\ Last(trace'[p]) = Req("sync", hdr[p])
                     /\ authenticated_user_id' = authenticated_user_id
          /\ SyncResp(p, "confirmed") => authenticated_user_id' = found[p]
          /\ \A o \in SyncOutcomes \ {"confirmed"} :
                 SyncResp(p, o) => authenticated_user_id' = authenticated_user_id]_vars

\* a caller alone on the client, whose tool needs no identity, has had the
\* identity found by a probe confirmed by the remote and cached
C25_Witness ==
    \E p \in Procs :
        /\ Alone(p) /\ tool[p] = ToolNoAuth
        /\ pc[p] = "notify_wait" /\ found[p] = "u2"
        /\ Kinds(trace[p]) = <<"init1", "init2", "sync", "notify">>
        /\ authenticated_user_id = "u2"

\* C26: once a user id is cached it is the identity of the session from
\* then on: it is never replaced, and no request that resolves the identity
\* (the identity lookup, the identity sync of the bridge) is sent any more
\* (stated for a caller that is alone on the client, with no close or
\* reset).
C26_IdentityResolvedOnce ==
    [][\A p \in Procs :
          (Alone(p) /\ lifecycle = 0 /\ authenticated_user_id # NoUser) =>
              /\ authenticated_user_id' = authenticated_user_id
              /\ SentNow(p) => Last(trace'[p]).kind \notin {"lookup", "sync"}]_vars

\* C27: nothing keeps a second handshake from starting while one is
\* running: a caller that calls call_tool while the session is not READY
\* and another caller is in the middle of its handshake sends its own bare
\* initialize at once, so that both run the whole handshake.
C27_NoSingleFlightGuard ==
    [][\A p \in Procs, name \in {ToolNoAuth, ToolQuery} :
          (/\ Invoke(p, name)
           /\ ~initialized
           /\ \E q \in Procs \ {p} : pc[q] \in HandshakePcs) =>
              /\ pc'[p] = "init1_wait"
              /\ trace'[p] = <<Req("init1", None)>>
              /\ \A q \in Procs \ {p} : pc'[q] = pc[q]]_vars

\* both callers have run the whole handshake on the same client and have
\* their tool calls on the wire: the initialize requests went out twice
C27_Witness ==
    /\ lifecycle = 0
    /\ \A p \in Procs :
           /\ pc[p] = "tool_wait"
           /\ CountKind(trace[p], "init1") = 1 /\ CountKind(trace[p], "init2") = 1
           /\ CountKind(trace[p], "notify") = 1
    /\ Len(sent_ids) = 6

\* C28: a client that is READY has an open transport, so that call_tool
\* never gets to post its tools/call request on a released one: no
\* operation takes the transport away from a client that is and stays
\* READY.
C28_ReadyHasTransport ==
    [][(initialized /\ session # None /\ initialized') => session' # None]_vars

\* C29: the token of a tools/call request is never one that another
\* caller's handshake has stored and not completed: no other caller is still
\* in its handshake (its notification not yet answered) with that token as
\* the one it acquired.
C29_ToolTokenAcknowledged ==
    [][\A p \in Procs :
          (SentNow(p) /\ Last(trace'[p]).kind = "tool" /\ Last(trace'[p]).hdr # None) =>
              ~\E q \in Procs \ {p} :
                   pc[q] \in HandshakePcs /\ hdr[q] = Last(trace'[p]).hdr]_vars

\* C30: once analyze_marketing_query has answered a question for which
\* several tools were selected, every selected tool has been executed and
\* has contributed exactly one entry, in order, whatever the tools returned.
C30_EveryToolContributes ==
    (agent_pc = "done" /\ Len(selected_tools) > 1) =>
        /\ executed = selected_tools
        /\ Len(tool_results) = Len(selected_tools)
        /\ \A i \in 1..Len(tool_results) : tool_results[i].tool = selected_tools[i]

====
